---- MODULE Spec2Model ----
(***************************************************************************)
(* pino-sentry: the transport of src/src/transport.ts (the current         *)
(* revision, lines 205-445) as a state machine.  A stream built by         *)
(* createWriteStream splits its input into lines, JSON-decodes each line,  *)
(* and hands the decoded records one at a time to the transformer, whose   *)
(* prepareAndGo filters by severity and defers one capture call to the     *)
(* external client followed by the completion callback.                    *)
(***************************************************************************)
EXTENDS Integers, Sequences, FiniteSets, TLC

VARIABLES
    constructed,            \* "none" | "ok" | "threw": new PinoSentryTransport(options)
    entry,                  \* "none" | "stream" (createWriteStream) | "transformer" (transformer() used directly)
    minimumLogLevel,        \* PinoSentryTransport.minimumLogLevel
    sentryExceptionLevels,  \* PinoSentryTransport.sentryExceptionLevels, as the set of its members
    sentryInitialised,      \* Sentry.init has been called
    thrown,                 \* the error the constructor threw
    given,                  \* the options the constructor was given
    input,                  \* the lines written to the stream so far
    splitPos,               \* how many lines the split stage has mapped
    streamError,            \* the split stage ended with an error
    handed,                 \* the records handed to the transformer, in order
    taken,                  \* how many of them the transformer has passed to prepareAndGo
    transforming,           \* the transformer waits for the completion callback of a record
    threw,                  \* prepareAndGo threw synchronously for the record in flight
    immediates,             \* the callbacks queued with setImmediate
    events,                 \* the capture calls issued and callbacks invoked, in order
    raised,                 \* the records whose capture call raised
    lookup,                 \* the last direct call of getLogSeverity: level and result
    env,                    \* process.env: SENTRY_DSN and npm_package_name
    warned,                 \* validateOptions printed its warning about the missing DSN
    initConfig,             \* the configuration handed to Sentry.init
    extraAttributeKeys,     \* PinoSentryTransport.extraAttributeKeys
    decorateScope,          \* PinoSentryTransport.decorateScope, as the scope calls it makes
    cli,                    \* the command line program: started, exit status, pipes of stdin
    stdout,                 \* the lines the command line program echoed
    resolved,               \* the last direct resolution of a dotted path: data, path, result
    written,                \* the chunks of text written to the stream so far
    kLast,                  \* the split stage's buffer: the text after the last newline
    ended                   \* the writable side of the stream was ended

vars == << constructed, entry, minimumLogLevel, sentryExceptionLevels, sentryInitialised,
           thrown, given, input, splitPos, streamError, handed, taken, transforming, threw,
           immediates, events, raised, lookup, env, warned, initConfig, extraAttributeKeys,
           decorateScope, cli, stdout, resolved, written, kLast, ended >>

configVars == << constructed, entry, minimumLogLevel, sentryExceptionLevels,
                 sentryInitialised, thrown, given >>
framingVars == << written, kLast, ended >>
optionVars == << env, warned, initConfig, extraAttributeKeys, decorateScope >>
streamVars == << input, splitPos, streamError, handed, taken, transforming, threw,
                 immediates, events, raised >>

(***************************************************************************)
(* Bounds of the model.                                                    *)
(***************************************************************************)
MaxLines == 3
MaxText == 5

(***************************************************************************)
(* JavaScript values.  Every value is a record of the same shape: its      *)
(* type, its text (strings, the message of an Error) and its number        *)
(* (numbers, the address of an object in Heap).                            *)
(***************************************************************************)
Undefined == [t |-> "undefined", s |-> "", n |-> 0]
Null == [t |-> "null", s |-> "", n |-> 0]
Str(x) == [t |-> "string", s |-> x, n |-> 0]
Num(k) == [t |-> "number", s |-> "", n |-> k]
Obj(a) == [t |-> "object", s |-> "", n |-> a]
ErrorObj(m) == [t |-> "error", s |-> m, n |-> 0]

\* What stands for a key that an object literal does not have at all; reading such
\* a key yields undefined.
Missing == [t |-> "missing", s |-> "", n |-> 0]
Read(v) == IF v = Missing THEN Undefined ELSE v

\* JavaScript's ToBoolean.
Truthy(v) ==
    CASE v.t = "undefined" -> FALSE
      [] v.t = "null" -> FALSE
      [] v.t = "string" -> v.s # ""
      [] v.t = "number" -> v.n # 0
      [] OTHER -> TRUE

\* a || b
Or(a, b) == IF Truthy(a) THEN a ELSE b

Digits == << "0", "1", "2", "3", "4", "5", "6", "7", "8", "9" >>

RECURSIVE NumStr(_)
\* The decimal text of a non-negative integer.
NumStr(k) == IF k < 10 THEN Digits[k + 1] ELSE NumStr(k \div 10) \o Digits[(k % 10) + 1]

\* JavaScript's JsToString, as used for property keys and by the Error constructor.
JsToString(v) ==
    CASE v.t = "undefined" -> "undefined"
      [] v.t = "null" -> "null"
      [] v.t = "string" -> v.s
      [] v.t = "number" -> NumStr(v.n)
      [] v.t = "error" -> "Error: " \o v.s
      [] OTHER -> "[object Object]"

(***************************************************************************)
(* Severity Mapper.                                                        *)
(***************************************************************************)
SEVERITIES_MAP ==
    ("10" :> "debug") @@ ("20" :> "debug") @@ ("30" :> "info") @@
    ("40" :> "warning") @@ ("50" :> "error") @@ ("60" :> "fatal") @@
    ("trace" :> "debug") @@ ("debug" :> "debug") @@ ("info" :> "info") @@
    ("warning" :> "warning") @@ ("error" :> "error") @@ ("fatal" :> "fatal")

\* SEVERITIES_MAP is an object literal: a lookup that finds no own key goes on to
\* Object.prototype, whose members are functions and objects, all truthy.
ObjectPrototypeKeys ==
    { "constructor", "toString", "toLocaleString", "valueOf", "hasOwnProperty",
      "isPrototypeOf", "propertyIsEnumerable", "__proto__" }

\* What a lookup returns for an inherited key: not a Severity.
Inherited(key) == "Object.prototype." \o key

\* A variant in which log and info have changed places.
SeverityIotaSwapped ==
    ("debug" :> 1) @@ ("log" :> 3) @@ ("info" :> 2) @@ ("warning" :> 4) @@
    ("error" :> 5) @@ ("fatal" :> 6) @@ ("critical" :> 7)

SeverityIota ==
    ("debug" :> 1) @@ ("log" :> 2) @@ ("info" :> 3) @@ ("warning" :> 4) @@
    ("error" :> 5) @@ ("fatal" :> 6) @@ ("critical" :> 7)

\* Object.keys(SeverityIota), in insertion order.
allowedLevels == << "debug", "log", "info", "warning", "error", "fatal", "critical" >>

Severity == { allowedLevels[i] : i \in 1..Len(allowedLevels) }

\* SEVERITIES_MAP[level] || Severity.Info
getLogSeverity(level) ==
    LET key == JsToString(level)
    IN  IF key \in DOMAIN SEVERITIES_MAP THEN SEVERITIES_MAP[key]
        ELSE IF key \in ObjectPrototypeKeys THEN Inherited(key)
        ELSE "info"

\* A variant that forwards only what is strictly above the threshold.
shouldLogStrict(severity) ==
    /\ severity \in DOMAIN SeverityIota
    /\ SeverityIota[severity] > minimumLogLevel

\* SeverityIota[severity] >= this.minimumLogLevel; the lookup of something that is
\* no key of SeverityIota is undefined, and undefined >= n is false.
shouldLog(severity) ==
    /\ severity \in DOMAIN SeverityIota
    /\ SeverityIota[severity] >= minimumLogLevel

\* A variant with the exception levels fixed, as in the earlier revision.
isSentryExceptionFixed(level) == level \in { "fatal", "error" }

\* this.sentryExceptionLevels.includes(level)
isSentryException(level) == level \in sentryExceptionLevels

(***************************************************************************)
(* Configuration.  An options object is the level it carries (Undefined    *)
(* when the key is missing), the sentryExceptionLevels, extraAttributeKeys *)
(* and decorateScope it carries, and its dsn and serverName, each of which *)
(* is Missing when the object has no such key.  The options of the model   *)
(* carry no messageAttributeKey, stackAttributeKey or maxValueLength, so   *)
(* that those fields keep their defaults.                                  *)
(***************************************************************************)
NoLevels == [present |-> FALSE, levels |-> {}]
Levels(set) == [present |-> TRUE, levels |-> set]

NoKeys == [present |-> FALSE, keys |-> << >>]
Keys(seq) == [present |-> TRUE, keys |-> seq]

\* A decorateScope hook is the sequence of calls it makes on the scope.
NoHook == [present |-> FALSE, ops |-> << >>]
Hook(ops) == [present |-> TRUE, ops |-> ops]

OptionDsn == "https://key@sentry.example/1"
EnvDsn == "https://env@sentry.example/2"

\* process.env without SENTRY_DSN and npm_package_name.
EmptyEnv == [SENTRY_DSN |-> Undefined, npm_package_name |-> Undefined]

Environments ==
    [SENTRY_DSN : { Undefined, Str(EnvDsn) }, npm_package_name : { Undefined, Str("my-app") }]

LevelOptions ==
    { Undefined, Str(""), Str("bogus") } \cup { Str(l) : l \in Severity }

ExceptionLevelOptions == { NoLevels, Levels({ "warning", "error", "fatal" }) }

OptionsSet ==
    [level : LevelOptions, sentryExceptionLevels : ExceptionLevelOptions,
     dsn : { Str(OptionDsn) }, serverName : { Missing },
     extraAttributeKeys : { NoKeys }, decorateScope : { NoHook }]

\* Options that differ in how they name the destination: the key missing, the key
\* there with no value, the key there with a value.
DsnOptionsSet ==
    [level : { Undefined }, sentryExceptionLevels : { NoLevels },
     dsn : { Missing, Undefined, Str(OptionDsn) },
     serverName : { Missing, Undefined, Str("api") },
     extraAttributeKeys : { NoKeys }, decorateScope : { NoHook }]

\* ...options at the end of an object literal: a key of options replaces the value
\* written before it, whatever the key holds.
Spread(value, option) == IF option = Missing THEN value ELSE option

NoError == [allowed |-> << >>, received |-> ""]

\* No configuration has reached Sentry.init.
NoConfig == [dsn |-> Undefined, serverName |-> Undefined]

\* allowedLevels.includes(level): strict equality with one of the names.
Includes(names, v) == v.t = "string" /\ \E i \in 1..Len(names) : names[i] = v.s

\* The fields validateOptions sets, or the error it throws.  The fields start
\* from the class's defaults (minimumLogLevel debug, exception levels fatal
\* and error).
\* A variant that never warns.
dsnMissingNever(dsn) == FALSE

\* if (!dsn): the warning is printed.
dsnMissing(dsn) == ~Truthy(dsn)

validateOptions(options) ==
    LET dsn == Or(Read(options.dsn), env.SENTRY_DSN)
    IN  IF Truthy(options.level) /\ ~Includes(allowedLevels, options.level)
        THEN [threw |-> TRUE,
              error |-> [allowed |-> allowedLevels, received |-> JsToString(options.level)],
              warned |-> dsnMissing(dsn),
              minimumLogLevel |-> SeverityIota["debug"],
              sentryExceptionLevels |-> { "fatal", "error" },
              extraAttributeKeys |-> << "extra" >>,
              decorateScope |-> << >>,
              config |-> NoConfig]
        ELSE [threw |-> FALSE,
              error |-> NoError,
              warned |-> dsnMissing(dsn),
              minimumLogLevel |->
                 IF Truthy(options.level)
                 THEN SeverityIota[options.level.s] ELSE SeverityIota["debug"],
              sentryExceptionLevels |->
                 IF options.sentryExceptionLevels.present
                 THEN options.sentryExceptionLevels.levels ELSE { "fatal", "error" },
              extraAttributeKeys |->
                 IF options.extraAttributeKeys.present
                 THEN options.extraAttributeKeys.keys ELSE << "extra" >>,
              decorateScope |->
                 IF options.decorateScope.present
                 THEN options.decorateScope.ops ELSE << >>,
              config |->
                 [dsn |-> Spread(dsn, options.dsn),
                  serverName |->
                     Spread(Or(env.npm_package_name, Str("pino-sentry")),
                            options.serverName)]]

(***************************************************************************)
(* Records.  Heap holds the objects the decoded documents are made of, by  *)
(* address; a property that an object does not have reads as undefined.    *)
(***************************************************************************)
Heap ==
    << [level |-> Num(30), msg |-> Str("ok")],
       [level |-> Num(50), msg |-> Str("bad"), stack |-> Str("Error: bad at f")],
       [level |-> Num(50), msg |-> Str("boom"), tags |-> Str("web"), reqId |-> Str("r1")],
       [level |-> Num(40), msg |-> Num(404)],
       [level |-> Str("fatal")],
       [level |-> Str("constructor"), msg |-> Str("odd")],
       [level |-> Num(60), msg |-> ErrorObj("disk full")],
       [level |-> Num(50), data |-> Obj(9)],
       [msg |-> Str("boom")],
       [level |-> Num(50), data |-> Num(0)],
       [level |-> Num(50), data |-> Str("text")],
       [level |-> Num(50), data |-> Null],
       [level |-> Num(50), msg |-> Str("a"), tags |-> Obj(14), reqId |-> Str("r1"),
        hostname |-> Str("h1"), responseTime |-> Num(0), extra |-> Obj(15),
        breadcrumbs |-> Obj(16), other |-> Str("x")],
       [env |-> Str("prod"), uuid |-> Str("old")],
       [user |-> Str("u")],
       ("0" :> Obj(17)) @@ ("1" :> Obj(18)),
       [message |-> Str("first")],
       [message |-> Str("second")],
       [level |-> Num(30), msg |-> Str("b"), tags |-> Obj(20), responseTime |-> Num(12)],
       [region |-> Str("eu")],
       [level |-> Num(50), msg |-> Str("d"), tags |-> Str("web"), extra |-> Str("text"),
        breadcrumbs |-> Str("none")] >>

\* The keys of the objects that the transport enumerates, in the order in which
\* they were inserted: the tags of objects 13 and 19, the breadcrumbs of 13.
KeyOrder ==
    (14 :> << "env", "uuid" >>) @@ (16 :> << "0", "1" >>) @@ (20 :> << "region" >>)

\* The lines of the model: one that is no JSON, and the JSON text of the first
\* four objects of Heap.
LineNotJson == "NOT-JSON"
LineInfo == "{\"level\":30,\"msg\":\"ok\"}"
LineError == "{\"level\":50,\"msg\":\"bad\",\"stack\":\"Error: bad at f\"}"
LineTagsText == "{\"level\":50,\"msg\":\"boom\",\"tags\":\"web\",\"reqId\":\"r1\"}"
LineWarning == "{\"level\":40,\"msg\":404}"

Lines == { LineNotJson, LineInfo, LineError, LineTagsText, LineWarning }

\* JSON.parse on the lines of the model: the document of each line that is JSON.
Documents ==
    (LineInfo :> Obj(1)) @@ (LineError :> Obj(2)) @@ (LineTagsText :> Obj(3)) @@
    (LineWarning :> Obj(4))

\* The objects a caller of transformer() writes: JSON cannot carry an Error, a
\* caller's object can.
DirectChunks == { Obj(1), Obj(5), Obj(6), Obj(7) }

\* obj[key]: an own property of an object, the length of a string, and undefined
\* for anything else the model reads.
Prop(obj, key) ==
    IF obj.t = "object" /\ obj.n \in 1..Len(Heap) /\ key \in DOMAIN Heap[obj.n]
    THEN Heap[obj.n][key]
    ELSE IF obj.t = "string" /\ key = "length" THEN Num(Len(obj.s))
    ELSE Undefined

RECURSIVE get(_, _)
\* path.split('.').reduce((acc, part) => acc && acc[part], data); a path is the
\* sequence of its segments.
get(data, path) ==
    IF path = << >> THEN data
    ELSE get(IF Truthy(data) THEN Prop(data, Head(path)) ELSE data, Tail(path))

messageAttributeKey == << "msg" >>
stackAttributeKey == << "stack" >>

(***************************************************************************)
(* Dispatch Router: prepareAndGo.                                          *)
(***************************************************************************)
NoErr ==
    [synthesized |-> FALSE, value |-> Undefined, name |-> "", message |-> "",
     stack |-> Undefined]

\* new ExtendedError({ message, stack }): super(info.message) leaves the message
\* empty when it is undefined and converts it to a string otherwise; the stack
\* is info.stack || null.
ExtendedError(info) ==
    [synthesized |-> TRUE,
     value |-> Undefined,
     name |-> "Error",
     message |-> IF info.message.t = "undefined" THEN "" ELSE JsToString(info.message),
     stack |-> Or(info.stack, Null)]

\* message instanceof Error ? message : new ExtendedError({ message, stack })
errorOf(message, stack) ==
    IF message.t = "error"
    THEN [synthesized |-> FALSE, value |-> message, name |-> "Error",
          message |-> message.s, stack |-> Str(JsToString(message))]
    ELSE ExtendedError([message |-> message, stack |-> stack])

\* tags = chunk.tags || {} is the record's own tags value when that is truthy;
\* the module is strict-mode code, where tags.uuid = ..., tags.responseTime = ...
\* and tags.hostname = ... throw a TypeError when tags is a primitive.
tagsAssignmentThrows(chunk) ==
    /\ Or(Prop(chunk, "tags"), Obj(0)).t \in { "string", "number" }
    /\ \/ Truthy(Prop(chunk, "reqId"))
       \/ Truthy(Prop(chunk, "responseTime"))
       \/ Truthy(Prop(chunk, "hostname"))

\* typeof obj is 'function' or 'object', and obj is not null.
isObject(obj) == obj.t \in { "object", "error" }

\* Object.keys(obj) with the values: the own properties in insertion order, none
\* for the empty object literal (address 0).
OwnPairs(obj) ==
    IF obj.t = "object" /\ obj.n \in DOMAIN KeyOrder
    THEN [i \in 1..Len(KeyOrder[obj.n]) |->
             [key |-> KeyOrder[obj.n][i], value |-> Heap[obj.n][KeyOrder[obj.n][i]]]]
    ELSE << >>

\* obj[key] = value on the properties of obj: an existing key keeps its place.
Assign(pairs, key, value) ==
    IF \E i \in 1..Len(pairs) : pairs[i].key = key
    THEN [i \in 1..Len(pairs) |->
             IF pairs[i].key = key THEN [key |-> key, value |-> value] ELSE pairs[i]]
    ELSE Append(pairs, [key |-> key, value |-> value])

\* if (chunk[field]) tags[name] = chunk[field]
AssignIfTruthy(pairs, name, value) ==
    IF Truthy(value) THEN Assign(pairs, name, value) ELSE pairs

\* The tags that prepareAndGo goes on to copy: chunk.tags || {} with uuid,
\* responseTime and hostname assigned, when that is an object; none otherwise.
tagsOf(chunk) ==
    LET tags == Or(Prop(chunk, "tags"), Obj(0))
        withUuid == AssignIfTruthy(OwnPairs(tags), "uuid", Prop(chunk, "reqId"))
        withTime == AssignIfTruthy(withUuid, "responseTime", Prop(chunk, "responseTime"))
        withHost == AssignIfTruthy(withTime, "hostname", Prop(chunk, "hostname"))
    IN  IF isObject(tags) THEN withHost ELSE << >>

\* A variant that defaults the keys the record lacks to null.
extraFromDefaulted(chunk, keys) ==
    [i \in 1..Len(keys) |->
        [key |-> keys[i],
         value |-> IF Prop(chunk, keys[i]) # Undefined THEN Prop(chunk, keys[i]) ELSE Null]]

RECURSIVE extraFrom(_, _)
\* this.extraAttributeKeys.forEach(key => { if (chunk[key] !== undefined)
\* extra[key] = chunk[key] }), on the keys in their order.
extraFrom(chunk, keys) ==
    IF keys = << >> THEN << >>
    ELSE LET before == extraFrom(chunk, SubSeq(keys, 1, Len(keys) - 1))
             key == keys[Len(keys)]
         IN  IF Prop(chunk, key) # Undefined
             THEN Assign(before, key, Prop(chunk, key)) ELSE before

\* Object.values(chunk.breadcrumbs || {}) when that is an object; none otherwise.
breadcrumbsOf(chunk) ==
    LET breadcrumbs == Or(Prop(chunk, "breadcrumbs"), Obj(0))
    IN  IF isObject(breadcrumbs)
        THEN [i \in 1..Len(OwnPairs(breadcrumbs)) |-> OwnPairs(breadcrumbs)[i].value]
        ELSE << >>

(***************************************************************************)
(* The scope of the external client, as far as the transport uses it: a    *)
(* level, tags, extra entries, breadcrumbs and a user, written by setLevel,*)
(* setTag, setExtra, addBreadcrumb and setUser; log keeps the calls made   *)
(* on the scope, in order.                                                 *)
(***************************************************************************)
EmptyMap == [k \in {} |-> Undefined]

EmptyScope ==
    [level |-> "", tags |-> EmptyMap, extra |-> EmptyMap, breadcrumbs |-> << >>,
     user |-> Undefined, log |-> << >>]

ScopeCall(op, key, value) == [op |-> op, key |-> key, value |-> value]

\* One call on a scope.
Apply(scope, c) ==
    LET logged == [scope EXCEPT !.log = Append(@, c)]
    IN  CASE c.op = "setLevel" -> [logged EXCEPT !.level = c.value.s]
          [] c.op = "setTag" -> [logged EXCEPT !.tags = (c.key :> c.value) @@ @]
          [] c.op = "setExtra" -> [logged EXCEPT !.extra = (c.key :> c.value) @@ @]
          [] c.op = "addBreadcrumb" -> [logged EXCEPT !.breadcrumbs = Append(@, c.value)]
          [] c.op = "setUser" -> [logged EXCEPT !.user = c.value]

RECURSIVE ApplyAll(_, _)
ApplyAll(scope, calls) ==
    IF calls = << >> THEN scope
    ELSE ApplyAll(Apply(scope, Head(calls)), Tail(calls))

\* A hook that sets a level, a tag the records also carry, a tag of its own and
\* the user.
HookCalls ==
    << ScopeCall("setLevel", "", Str("critical")), ScopeCall("setTag", "env", Str("hook")),
       ScopeCall("setTag", "source", Str("hook")), ScopeCall("setUser", "", Str("u1")) >>

\* The scope the client was last given: the scope of the latest capture call.
LastScope ==
    IF \E p \in 1..Len(events) : events[p].op \in { "captureException", "captureMessage" }
    THEN events[CHOOSE p \in 1..Len(events) :
                   /\ events[p].op \in { "captureException", "captureMessage" }
                   /\ \A q \in (p + 1)..Len(events) : events[q].op = "cb"].scope
    ELSE EmptyScope

\* The earlier revision: Sentry.configureScope hands out the one scope of the
\* client, with whatever the records before have left in it.
configureScope(last) == last

\* new Sentry.Scope(): an empty scope, whatever the client was given before.
newScope(last) == EmptyScope

\* A variant that runs the hook after the record's own values were written.
scopeCallsHookLast(hook, level, tags, extra, breadcrumbs) ==
    level \o tags \o extra \o breadcrumbs \o hook

\* The calls on the scope in the order of prepareAndGo: the hook, setLevel, a
\* setTag per tag, a setExtra per extra entry, an addBreadcrumb per breadcrumb.
scopeCalls(hook, level, tags, extra, breadcrumbs) ==
    hook \o level \o tags \o extra \o breadcrumbs

\* The scope prepareAndGo builds for a record of the given severity.
scopeOf(chunk, severity) ==
    LET tags == tagsOf(chunk)
        extra == extraFrom(chunk, extraAttributeKeys)
        breadcrumbs == breadcrumbsOf(chunk)
    IN  ApplyAll(newScope(LastScope),
                 scopeCalls(decorateScope,
                            << ScopeCall("setLevel", "", Str(severity)) >>,
                            [i \in 1..Len(tags) |->
                                ScopeCall("setTag", tags[i].key, tags[i].value)],
                            [i \in 1..Len(extra) |->
                                ScopeCall("setExtra", extra[i].key, extra[i].value)],
                            [i \in 1..Len(breadcrumbs) |->
                                ScopeCall("addBreadcrumb", "", breadcrumbs[i])]))

NoCall ==
    [op |-> "none", error |-> NoErr, message |-> Undefined, level |-> "",
     scope |-> EmptyScope]

\* A variant that captures exceptions only and merely acknowledges a message.
dispatchStepsExceptionsOnly(outcome) ==
    [sync |-> << >>,
     deferred |-> IF outcome = "exception" THEN << "capture", "cb" >> ELSE << "cb" >>]

\* A variant whose deferred callback acknowledges before it captures.
dispatchStepsCbThenCapture(outcome) ==
    [sync |-> << >>,
     deferred |-> IF outcome = "filtered" THEN << "cb" >> ELSE << "cb", "capture" >>]

\* A variant that acknowledges the record at once and only defers the capture.
dispatchStepsAckFirst(outcome) ==
    [sync |-> << "cb" >>,
     deferred |-> IF outcome = "filtered" THEN << >> ELSE << "capture" >>]

\* What prepareAndGo does with the completion callback and the capture call:
\* nothing synchronously; setImmediate(cb) for a filtered record, and
\* setImmediate(() => { capture; cb() }) otherwise.
dispatchSteps(outcome) ==
    [sync |-> << >>,
     deferred |-> IF outcome = "filtered" THEN << "cb" >> ELSE << "capture", "cb" >>]

\* prepareAndGo(chunk, cb) up to its setImmediate: filtered, thrown, or the capture
\* call it defers.
prepareAndGo(chunk) ==
    LET severity == getLogSeverity(Prop(chunk, "level"))
        message == get(chunk, messageAttributeKey)
        stack == Or(get(chunk, stackAttributeKey), Str(""))
    IN  IF ~shouldLog(severity)
        THEN [outcome |-> "filtered", severity |-> severity, call |-> NoCall]
        ELSE IF tagsAssignmentThrows(chunk)
        THEN [outcome |-> "threw", severity |-> severity, call |-> NoCall]
        ELSE IF isSentryException(severity)
        THEN [outcome |-> "exception", severity |-> severity,
              call |-> [op |-> "captureException", error |-> errorOf(message, stack),
                        message |-> Undefined, level |-> severity,
                        scope |-> scopeOf(chunk, severity)]]
        ELSE [outcome |-> "message", severity |-> severity,
              call |-> [op |-> "captureMessage", error |-> NoErr,
                        message |-> message, level |-> severity,
                        scope |-> scopeOf(chunk, severity)]]

\* A variant that lets the decode failure escape instead of swallowing it.
mapperStrict(line) ==
    IF line \in DOMAIN Documents THEN Documents[line]
    ELSE [t |-> "throw", s |-> "SyntaxError", n |-> 0]

\* The function given to split: try { return JSON.parse(line) } catch (e) { return }
mapper(line) ==
    IF line \in DOMAIN Documents THEN Documents[line] ELSE Undefined

(***************************************************************************)
(* Line framing: the split stage that createWriteStream puts in front of   *)
(* the transformer.  Text is a sequence of pieces, each a newline or a     *)
(* piece of a line; a chunk is the text of one write.                      *)
(***************************************************************************)
NL == "\n"
InfoHead == "{\"level\":30,"
InfoTail == "\"msg\":\"ok\"}"

Pieces == { InfoHead, InfoTail, NL }

\* The chunks of at most n pieces.
ChunksUpTo(n) == UNION { [1..m -> Pieces] : m \in 1..n }

RECURSIVE splitText(_)
\* text.split(matcher): the stretches of text between the newlines, an empty one
\* included; the last one is what follows the last newline.
splitText(text) ==
    IF text = << >> THEN << << >> >>
    ELSE LET rest == splitText(Tail(text))
         IN  IF Head(text) = NL THEN << << >> >> \o rest
             ELSE << << Head(text) >> \o Head(rest) >> \o Tail(rest)

RECURSIVE TextOfPieces(_)
\* The string that a stretch of text is.
TextOfPieces(text) ==
    IF text = << >> THEN "" ELSE Head(text) \o TextOfPieces(Tail(text))

\* The split stage on one chunk: the buffer and the chunk are split, the last
\* stretch stays in the buffer and the others are lines.
splitTransform(last, chunk) ==
    LET list == splitText(last \o chunk)
    IN  [last |-> list[Len(list)],
         lines |-> [i \in 1..(Len(list) - 1) |-> TextOfPieces(list[i])]]

\* The split stage at the end of the input: what is left in the buffer is a line
\* unless it is empty.
splitFlush(last) ==
    IF TextOfPieces(last) # "" THEN << TextOfPieces(last) >> ELSE << >>

\* A variant without a split stage: every chunk is decoded as if it were a line.
frameEachChunk(last, chunk) ==
    [last |-> << >>, lines |-> << TextOfPieces(chunk) >>]

\* The first stage of the stream that createWriteStream builds: split(mapper).
frame(last, chunk) == splitTransform(last, chunk)

RECURSIVE pushMapped(_, _, _)
\* The split stage maps each line and pushes what the mapper returns unless it is
\* undefined; base is the number of the lines before these.
pushMapped(records, base, lines) ==
    IF lines = << >> THEN records
    ELSE LET v == mapper(lines[Len(lines)])
             before == pushMapped(records, base, SubSeq(lines, 1, Len(lines) - 1))
         IN  IF v.t \in { "throw", "undefined" } THEN before
             ELSE Append(before, [line |-> base + Len(lines), chunk |-> v])

(***************************************************************************)
(* The state machine.                                                      *)
(***************************************************************************)
Range(seq) == { seq[i] : i \in 1..Len(seq) }

\* The events of running ops for record k: the capture call, the callback.
EventsOf(k, call, ops) ==
    [i \in 1..Len(ops) |->
        IF ops[i] = "cb"
        THEN [rec |-> k, op |-> "cb", error |-> NoErr, message |-> Undefined, level |-> "",
              scope |-> EmptyScope]
        ELSE [rec |-> k, op |-> call.op, error |-> call.error, message |-> call.message,
              level |-> call.level, scope |-> call.scope]]

\* The steps of a deferred callback up to and including the capture call.
UpToCapture(ops) ==
    SubSeq(ops, 1, CHOOSE i \in 1..Len(ops) :
                      ops[i] = "capture" /\ \A j \in 1..(i - 1) : ops[j] # "capture")

\* The command line program has not run.
NotStarted ==
    [started |-> FALSE, exited |-> FALSE, exitCode |-> 0, toStdout |-> FALSE,
     toStream |-> FALSE]

\* The state after the module is loaded, but for the environment of the process.
Start ==
    /\ constructed = "none"
    /\ entry = "none"
    /\ minimumLogLevel = SeverityIota["debug"]
    /\ sentryExceptionLevels = { "fatal", "error" }
    /\ sentryInitialised = FALSE
    /\ thrown = NoError
    /\ given = [level |-> Undefined, sentryExceptionLevels |-> NoLevels, dsn |-> Missing,
                serverName |-> Missing, extraAttributeKeys |-> NoKeys,
                decorateScope |-> NoHook]
    /\ input = << >>
    /\ splitPos = 0
    /\ streamError = FALSE
    /\ handed = << >>
    /\ taken = 0
    /\ transforming = FALSE
    /\ threw = FALSE
    /\ immediates = << >>
    /\ events = << >>
    /\ raised = {}
    /\ lookup = [called |-> FALSE, level |-> Undefined, severity |-> ""]
    /\ warned = FALSE
    /\ initConfig = NoConfig
    /\ extraAttributeKeys = << "extra" >>
    /\ decorateScope = << >>
    /\ cli = NotStarted
    /\ stdout = << >>
    /\ resolved = [called |-> FALSE, data |-> Undefined, path |-> << >>, result |-> Undefined]
    /\ written = << >>
    /\ kLast = << >>
    /\ ended = FALSE

\* A process whose environment sets neither SENTRY_DSN nor npm_package_name.
Init == Start /\ env = EmptyEnv

\* new PinoSentryTransport(options), from createWriteStream or from a caller who
\* goes on to use transformer(): Sentry.init(this.validateOptions(options)).
Constructing(e, options) ==
    /\ constructed = "none"
    /\ given' = options
    /\ LET r == validateOptions(options)
       IN  /\ warned' = r.warned
           /\ IF r.threw
              THEN /\ constructed' = "threw"
                   /\ thrown' = r.error
                   /\ UNCHANGED << entry, minimumLogLevel, sentryExceptionLevels,
                                   sentryInitialised, initConfig, extraAttributeKeys,
                                   decorateScope >>
              ELSE /\ constructed' = "ok"
                   /\ entry' = e
                   /\ minimumLogLevel' = r.minimumLogLevel
                   /\ sentryExceptionLevels' = r.sentryExceptionLevels
                   /\ extraAttributeKeys' = r.extraAttributeKeys
                   /\ decorateScope' = r.decorateScope
                   /\ sentryInitialised' = TRUE
                   /\ initConfig' = r.config
                   /\ UNCHANGED thrown
    /\ UNCHANGED << streamVars, lookup, env, resolved, framingVars >>

\* A program constructs the transport itself.
Construct(e, options) ==
    /\ Constructing(e, options)
    /\ UNCHANGED << cli, stdout >>

\* The options commander parses from the command line: an option that was not
\* given is undefined.
Arguments ==
    [dsn : { Undefined, Str(OptionDsn) }, serverName : { Undefined, Str("api") },
     level : { Undefined, Str("bogus"), Str("error") }]

\* The object the command line program passes to createWriteStream: every key is
\* there, whether or not its option was given.
cliOptions(argv) ==
    [level |-> argv.level, sentryExceptionLevels |-> NoLevels, dsn |-> argv.dsn,
     serverName |-> argv.serverName, extraAttributeKeys |-> NoKeys,
     decorateScope |-> NoHook]

\* The earlier revision of the program: it pipes stdin to the stream only, and a
\* failure is logged without leaving the process.
cliAfterEarlier(failed) ==
    [started |-> TRUE, exited |-> FALSE, exitCode |-> 0, toStdout |-> FALSE,
     toStream |-> ~failed]

\* What the action of the program leaves behind: process.exit(1) from the catch
\* block, or stdin piped to stdout and to the stream.
cliAfter(failed) ==
    [started |-> TRUE, exited |-> failed, exitCode |-> IF failed THEN 1 ELSE 0,
     toStdout |-> ~failed, toStream |-> ~failed]

\* The command line program runs its action.
Main(argv) ==
    /\ ~cli.started
    /\ Constructing("cli", cliOptions(argv))
    /\ cli' = cliAfter(validateOptions(cliOptions(argv)).threw)
    /\ UNCHANGED stdout

\* A line arrives on the standard input of the command line program and flows
\* into whatever stdin is piped to.
Stdin(line) ==
    /\ cli.started
    /\ ~cli.exited
    /\ cli.toStdout \/ cli.toStream
    /\ ~streamError
    /\ Len(input) < MaxLines
    /\ Len(stdout) < MaxLines
    /\ input' = IF cli.toStream THEN Append(input, line) ELSE input
    /\ stdout' = IF cli.toStdout THEN Append(stdout, line) ELSE stdout
    /\ UNCHANGED << configVars, splitPos, streamError, handed, taken, transforming,
                    threw, immediates, events, raised, lookup, optionVars, cli, resolved, framingVars >>

\* A line is written to the stream that createWriteStream returned.
Write(line) ==
    /\ constructed = "ok"
    /\ entry = "stream"
    /\ ~streamError
    /\ Len(input) < MaxLines
    /\ input' = Append(input, line)
    /\ UNCHANGED << configVars, splitPos, streamError, handed, taken, transforming,
                    threw, immediates, events, raised, lookup, optionVars, cli, stdout, resolved, framingVars >>

\* An object is written to the stream that transformer() returned.
WriteObject(chunk) ==
    /\ constructed = "ok"
    /\ entry = "transformer"
    /\ Len(handed) < MaxLines
    /\ handed' = Append(handed, [line |-> Len(handed) + 1, chunk |-> chunk])
    /\ UNCHANGED << configVars, input, splitPos, streamError, taken, transforming,
                    threw, immediates, events, raised, lookup, optionVars, cli, stdout, resolved, framingVars >>

\* The split stage maps the next line: what the mapper returns is pushed on to the
\* transformer unless it is undefined; what it throws ends the stream in error.
Split ==
    /\ constructed = "ok"
    /\ ~streamError
    /\ splitPos < Len(input)
    /\ LET v == mapper(input[splitPos + 1])
       IN  /\ splitPos' = splitPos + 1
           /\ streamError' = (v.t = "throw")
           /\ handed' = IF v.t \in { "throw", "undefined" } THEN handed
                        ELSE Append(handed, [line |-> splitPos + 1, chunk |-> v])
    /\ UNCHANGED << configVars, input, taken, transforming, threw, immediates, events,
                    raised, lookup, optionVars, cli, stdout, resolved, framingVars >>

\* The transformer takes the next record once the callback of the one before has
\* been invoked: this.prepareAndGo(chunk, cb).
Transform ==
    /\ constructed = "ok"
    /\ ~transforming
    /\ taken < Len(handed)
    /\ LET k == taken + 1
           r == prepareAndGo(handed[k].chunk)
           steps == dispatchSteps(r.outcome)
       IN  /\ taken' = k
           /\ IF r.outcome = "threw"
              THEN /\ threw' = TRUE
                   /\ transforming' = TRUE
                   /\ UNCHANGED << immediates, events >>
              ELSE /\ events' = events \o EventsOf(k, r.call, steps.sync)
                   /\ transforming' = ("cb" \notin Range(steps.sync))
                   /\ immediates' =
                         Append(immediates, [rec |-> k, ops |-> steps.deferred, call |-> r.call])
                   /\ UNCHANGED threw
    /\ UNCHANGED << configVars, input, splitPos, streamError, handed, raised, lookup,
                    optionVars, cli, stdout, resolved, framingVars >>

\* The event loop runs the oldest setImmediate callback to its end.
Immediate ==
    /\ immediates # << >>
    /\ LET job == Head(immediates)
       IN  /\ events' = events \o EventsOf(job.rec, job.call, job.ops)
           /\ transforming' = IF "cb" \in Range(job.ops) THEN FALSE ELSE transforming
    /\ immediates' = Tail(immediates)
    /\ UNCHANGED << configVars, input, splitPos, streamError, handed, taken, threw,
                    raised, lookup, optionVars, cli, stdout, resolved, framingVars >>

\* The event loop runs the oldest setImmediate callback and the client's capture
\* call raises: the rest of the callback does not run.
ImmediateRaises ==
    /\ immediates # << >>
    /\ "capture" \in Range(Head(immediates).ops)
    /\ LET job == Head(immediates)
           done == UpToCapture(job.ops)
       IN  /\ events' = events \o EventsOf(job.rec, job.call, done)
           /\ transforming' = IF "cb" \in Range(done) THEN FALSE ELSE transforming
           /\ raised' = raised \cup { job.rec }
    /\ immediates' = Tail(immediates)
    /\ UNCHANGED << configVars, input, splitPos, streamError, handed, taken, threw,
                    lookup, optionVars, cli, stdout, resolved, framingVars >>

\* A caller asks the transport for the severity of a level.
GetLogSeverity(level) ==
    /\ constructed = "ok"
    /\ lookup' = [called |-> TRUE, level |-> level, severity |-> getLogSeverity(level)]
    /\ UNCHANGED << configVars, streamVars, optionVars, cli, stdout, resolved, framingVars >>

Next ==
    \/ \E e \in { "stream", "transformer" }, options \in OptionsSet : Construct(e, options)
    \/ \E line \in Lines : Write(line)
    \/ \E chunk \in DirectChunks : WriteObject(chunk)
    \/ Split
    \/ Transform
    \/ Immediate
    \/ ImmediateRaises

Spec == Init /\ [][Next]_vars

RECURSIVE Flatten(_)
\* The chunks written, as one text.
Flatten(chunks) ==
    IF chunks = << >> THEN << >> ELSE Head(chunks) \o Flatten(Tail(chunks))

\* How much more text the model lets a stream be given.
Room == MaxText - Len(Flatten(written))

\* The split stage has framed lines: each is mapped at once and what the mapper
\* returns is pushed on to the transformer.
Deliver(lines) ==
    /\ input' = input \o lines
    /\ splitPos' = Len(input) + Len(lines)
    /\ handed' = pushMapped(handed, Len(input), lines)
    /\ streamError' = \E i \in 1..Len(lines) : mapper(lines[i]).t = "throw"

\* A chunk of text is written to the stream that createWriteStream returned.
WriteChunk(chunk) ==
    /\ constructed = "ok"
    /\ entry = "stream"
    /\ ~ended
    /\ ~streamError
    /\ Len(chunk) <= Room
    /\ written' = Append(written, chunk)
    /\ kLast' = frame(kLast, chunk).last
    /\ Deliver(frame(kLast, chunk).lines)
    /\ UNCHANGED << configVars, taken, transforming, threw, immediates, events, raised,
                    lookup, optionVars, cli, stdout, resolved, ended >>

\* The writable side of the stream is ended: the split stage flushes its buffer.
End ==
    /\ constructed = "ok"
    /\ entry = "stream"
    /\ ~ended
    /\ ~streamError
    /\ ended' = TRUE
    /\ Deliver(splitFlush(kLast))
    /\ UNCHANGED << configVars, taken, transforming, threw, immediates, events, raised,
                    lookup, optionVars, cli, stdout, resolved, written, kLast >>

\* Options with the default threshold.
FramingOptionsSet == { o \in OptionsSet : o.level = Undefined }

NextFraming ==
    \/ \E options \in FramingOptionsSet : Construct("stream", options)
    \/ \E chunk \in ChunksUpTo(Room) : WriteChunk(chunk)
    \/ End

\* A stream that is written in chunks of text and then ended.
FramingSpec == Init /\ [][NextFraming]_vars

\* Options that differ in the hook, the extra keys and the threshold.
ScopeOptionsSet ==
    [level : { Undefined, Str("warning") }, sentryExceptionLevels : { NoLevels },
     dsn : { Str(OptionDsn) }, serverName : { Missing },
     extraAttributeKeys : { NoKeys, Keys(<< "extra", "other", "absent" >>) },
     decorateScope : { NoHook, Hook(HookCalls) }]

\* Records with tags, extra fields and breadcrumbs, as mappings and as scalars.
ScopeChunks == { Obj(3), Obj(13), Obj(19), Obj(21) }

NextScope ==
    \/ \E options \in ScopeOptionsSet : Construct("transformer", options)
    \/ \E chunk \in ScopeChunks : WriteObject(chunk)
    \/ Transform
    \/ Immediate

\* The transformer fed with records that carry tags, extra fields and
\* breadcrumbs.
ScopeSpec == Init /\ [][NextScope]_vars

\* The records and the dotted paths given to get.
GetData == { Obj(1), Obj(2), Obj(8), Obj(10), Obj(11), Obj(12) }

GetPaths ==
    { << "msg" >>, << "stack" >>, << "data", "msg" >>, << "data", "missing" >>,
      << "data", "length" >>, << "missing", "msg" >>, << "msg", "text" >> }

\* A message or a stack is resolved by its dotted path.
Get(data, path) ==
    /\ constructed = "ok"
    /\ resolved' = [called |-> TRUE, data |-> data, path |-> path, result |-> get(data, path)]
    /\ UNCHANGED << configVars, streamVars, optionVars, cli, stdout, lookup, framingVars >>

NextGet ==
    \/ \E options \in OptionsSet : Construct("stream", options)
    \/ \E data \in GetData, path \in GetPaths : Get(data, path)

\* The resolution of dotted paths on its own.
GetSpec == Init /\ [][NextGet]_vars

\* The lines a process with an environment writes or receives.
CliLines == { LineNotJson, LineInfo, LineError }

CliInit == Start /\ env \in Environments

NextCli ==
    \/ \E options \in DsnOptionsSet : Construct("stream", options)
    \/ \E argv \in Arguments : Main(argv)
    \/ \E line \in CliLines : Write(line)
    \/ \E line \in CliLines : Stdin(line)
    \/ Split
    \/ Transform
    \/ Immediate

\* A process in some environment: a program that constructs the stream itself, or
\* the command line program.
CliSpec == CliInit /\ [][NextCli]_vars

\* The levels given to getLogSeverity.
LevelInputs ==
    { Num(k) : k \in { 0, 10, 20, 30, 35, 40, 50, 60, 70 } } \cup
    { Str(l) : l \in { "trace", "debug", "info", "warn", "warning", "error", "fatal",
                       "log", "critical", "bogus", "", "10", "constructor",
                       "toString" } } \cup
    { Undefined, Null }

NextMapper ==
    \/ \E options \in OptionsSet : Construct("stream", options)
    \/ \E level \in LevelInputs : GetLogSeverity(level)

\* The severity mapper on its own: a transport is constructed and asked for the
\* severities of levels.
MapperSpec == Init /\ [][NextMapper]_vars

(***************************************************************************)
(* What the claims speak of.                                               *)
(***************************************************************************)
\* The declared order of the severities, lowest first.
DeclaredOrder == << "debug", "log", "info", "warning", "error", "fatal", "critical" >>

Rank(sev) == CHOOSE i \in 1..Len(DeclaredOrder) : DeclaredOrder[i] = sev

IsCapture(e) == e.op \in { "captureException", "captureMessage" }

\* The positions in events of the capture calls and of the callbacks of record k.
CallsOf(k) == { p \in 1..Len(events) : events[p].rec = k /\ IsCapture(events[p]) }
AcksOf(k) == { p \in 1..Len(events) : events[p].rec = k /\ events[p].op = "cb" }

\* The records of the capture calls, in the order the calls were issued.
CallRecs ==
    LET cs == SelectSeq(events, IsCapture)
    IN  [i \in 1..Len(cs) |-> cs[i].rec]

SeverityOf(k) == getLogSeverity(Prop(handed[k].chunk, "level"))

\* Record k passes the threshold.
NonFiltered(k) ==
    /\ SeverityOf(k) \in Severity
    /\ Rank(SeverityOf(k)) >= minimumLogLevel

\* The members of a set of numbers, in increasing order.
Ascending(S) ==
    [i \in 1..Cardinality(S) |-> CHOOSE x \in S : Cardinality({ y \in S : y < x }) = i - 1]

\* prepareAndGo threw on record k: a record whose tags are no mapping.
ThrewOn(k) == threw /\ k = taken

\* The deferred step of record k has run.
Dispatched(k) ==
    /\ k <= taken
    /\ ~ThrewOn(k)
    /\ \A i \in 1..Len(immediates) : immediates[i].rec # k

\* Everything written has gone through the stream.
Drained ==
    /\ splitPos = Len(input)
    /\ taken = Len(handed)
    /\ immediates = << >>
    /\ ~threw

IsPrefix(a, b) == Len(a) <= Len(b) /\ \A i \in 1..Len(a) : a[i] = b[i]

WellFormed(line) == line # LineNotJson

C2_MalformedLinesSkipped ==
    entry = "stream" =>
        /\ ~streamError
        /\ [i \in 1..Len(handed) |-> handed[i].line]
              = Ascending({ j \in 1..splitPos : WellFormed(input[j]) })
        /\ \A i \in 1..Len(handed) : handed[i].chunk = Documents[input[handed[i].line]]

\* A malformed line between two well-formed ones: both well-formed lines have
\* their capture calls, the second after the malformed line was dropped.
C2_Witness ==
    /\ entry = "stream"
    /\ Len(input) = 3
    /\ ~WellFormed(input[2])
    /\ WellFormed(input[1])
    /\ WellFormed(input[3])
    /\ Len(handed) = 2
    /\ CallRecs = << 1, 2 >>
    /\ handed[2].line = 3

MessageOf(k) == get(handed[k].chunk, messageAttributeKey)
StackOf(k) == Or(get(handed[k].chunk, stackAttributeKey), Str(""))

\* The text of a message: empty when there is none.
TextOf(m) == IF m.t = "undefined" THEN "" ELSE IF m.t = "error" THEN m.s ELSE JsToString(m)

\* What C4 says whatever the error's stack: one call per forwarded record, an
\* exception exactly for the exception levels, otherwise the message as
\* extracted; an Error is passed on as it is, anything else as a synthesized
\* error with the message's text.
RoutedAsClaimed(e) ==
    LET k == e.rec
        m == MessageOf(k)
    IN  /\ Cardinality(CallsOf(k)) = 1
        /\ NonFiltered(k)
        /\ (e.op = "captureException") <=> (SeverityOf(k) \in sentryExceptionLevels)
        /\ e.op = "captureMessage" => e.message = m /\ e.error = NoErr
        /\ e.op = "captureException" =>
              /\ e.error.synthesized <=> m.t # "error"
              /\ ~e.error.synthesized => e.error.value = m
              /\ e.error.name = "Error"
              /\ e.error.message = TextOf(m)

C5_RaiseDoesNotStall ==
    \A k \in raised :
        (k = taken /\ immediates = << >>) => ~transforming

\* C6: at most one deferred step is pending at any time, and the transformer has
\* not begun a record before the callback of the record before it was invoked.
C6_OneRecordInFlight ==
    /\ Len(immediates) <= 1
    /\ \A k \in 2..taken : AcksOf(k - 1) # {}

\* The second record is in flight, the first is acknowledged and the third waits.
C6_Witness ==
    /\ taken = 2
    /\ Len(handed) = 3
    /\ Len(immediates) = 1
    /\ transforming
    /\ AcksOf(1) # {}

\* C7: the callback of a record that passes the threshold is invoked only after
\* the capture call of that record was issued.
C7_CaptureBeforeCallback ==
    \A p \in 1..Len(events) :
        (events[p].op = "cb" /\ NonFiltered(events[p].rec)) =>
            \E q \in 1..(p - 1) : events[q].rec = events[p].rec /\ IsCapture(events[q])

\* A record that passes the threshold has been acknowledged.
C7_Witness ==
    \E k \in 1..Len(handed) : NonFiltered(k) /\ AcksOf(k) # {} /\ CallsOf(k) # {}

\* The severity the specification documents for a level.  A numeric level is
\* known by its decimal text, as a property key is.
DocumentedSeverity(level) ==
    LET text == IF level.t \in { "number", "string" } THEN JsToString(level) ELSE ""
    IN  CASE text \in { "10", "20", "trace", "debug" } -> "debug"
          [] text \in { "30", "info" } -> "info"
          [] text \in { "40", "warning" } -> "warning"
          [] text \in { "50", "error" } -> "error"
          [] text \in { "60", "fatal" } -> "fatal"
          [] OTHER -> "info"

\* C8: getLogSeverity returns the documented severity for the six numeric levels
\* and the six labels, and info for every other level.
C8_GetLogSeverityTotal ==
    lookup.called => lookup.severity = DocumentedSeverity(lookup.level)

\* The README's Log Level Mapping.
ReadmeMapping ==
    ("trace" :> "debug") @@ ("debug" :> "debug") @@ ("info" :> "info") @@
    ("warn" :> "warning") @@ ("error" :> "error") @@ ("fatal" :> "fatal")

\* C9: every pino level label is given the severity of the README's table.
C9_PinoLabelsMapped ==
    (lookup.called /\ lookup.level.t = "string" /\ lookup.level.s \in DOMAIN ReadmeMapping)
        => lookup.severity = ReadmeMapping[lookup.level.s]

\* C10: a level option that is one of the seven names constructs the transport
\* with that name's rank as threshold; any other level option makes the
\* constructor throw an error naming the seven, before the client is initialised
\* and with no record processed.
C10_InvalidLevelRaises ==
    constructed # "none" =>
        IF given.level.t = "string" /\ given.level.s \in Range(DeclaredOrder)
        THEN constructed = "ok" /\ minimumLogLevel = Rank(given.level.s)
        ELSE given.level # Undefined =>
                /\ constructed = "threw"
                /\ thrown.allowed = DeclaredOrder
                /\ ~sentryInitialised
                /\ events = << >>
                /\ taken = 0

\* An option names a value.
Supplied(v) == v \notin { Missing, Undefined }

\* C11: a transport constructed with no dsn option and no SENTRY_DSN (and a level
\* that is absent or one of the seven names) is constructed without an error: the
\* warning is printed, Sentry.init is called, and every record at or above the
\* threshold gets its one capture call, routed as for any other transport.
C11_NoDsnWarnsAndProcesses ==
    (/\ constructed # "none"
     /\ ~Truthy(Read(given.dsn))
     /\ ~Truthy(env.SENTRY_DSN)
     /\ given.level = Undefined \/ Includes(DeclaredOrder, given.level))
    => /\ constructed = "ok"
       /\ warned
       /\ sentryInitialised
       /\ \A k \in 1..Len(handed) :
             (NonFiltered(k) /\ Dispatched(k)) => Cardinality(CallsOf(k)) = 1
       /\ \A p \in 1..Len(events) : IsCapture(events[p]) => RoutedAsClaimed(events[p])

\* No dsn anywhere, the warning was printed, and two records have had their calls.
C11_Witness ==
    /\ constructed = "ok"
    /\ ~Truthy(Read(given.dsn))
    /\ ~Truthy(env.SENTRY_DSN)
    /\ warned
    /\ sentryInitialised
    /\ CallRecs = << 1, 2 >>

\* C12: when the options supply no dsn and SENTRY_DSN is set, the configuration
\* handed to Sentry.init has the environment's dsn; when they supply no
\* serverName, it has npm_package_name or else pino-sentry.
C12_EnvironmentFallback ==
    constructed = "ok" =>
        /\ (~Supplied(given.dsn) /\ Truthy(env.SENTRY_DSN)) => initConfig.dsn = env.SENTRY_DSN
        /\ ~Supplied(given.serverName) =>
              initConfig.serverName = Or(env.npm_package_name, Str("pino-sentry"))

\* C17: when createWriteStream fails the command line program exits with a status
\* other than 0 and stdin is piped nowhere: nothing is echoed and nothing reaches
\* the stream; when it succeeds stdin is piped to stdout and to the stream, so
\* that both have received the same lines.
C17_CliExitsOrPipesBoth ==
    cli.started =>
        IF constructed = "threw"
        THEN /\ cli.exited
             /\ cli.exitCode # 0
             /\ ~cli.toStdout
             /\ ~cli.toStream
             /\ stdout = << >>
             /\ input = << >>
        ELSE /\ constructed = "ok"
             /\ ~cli.exited
             /\ cli.toStdout
             /\ cli.toStream
             /\ stdout = input

\* The program was given a level that is no severity and has exited with status 1.
C17_Witness ==
    /\ cli.started
    /\ given.level = Str("bogus")
    /\ constructed = "threw"
    /\ cli.exited
    /\ cli.exitCode = 1

\* A mapping: an object of the heap.
IsMapping(v) == v.t = "object" /\ v.n \in 1..Len(Heap)

RECURSIVE NestedValue(_, _)
\* The value a dotted path names: the nested value when every segment leads
\* through a mapping that has it, and absent otherwise.
NestedValue(data, path) ==
    IF path = << >> THEN data
    ELSE IF IsMapping(data) /\ Head(path) \in DOMAIN Heap[data.n]
    THEN NestedValue(Heap[data.n][Head(path)], Tail(path))
    ELSE Undefined

\* C13: the resolution of a dotted path yields the nested value when every
\* segment leads through a mapping, and absent when some segment on the way is
\* missing or is no mapping.
C13_DottedPathResolution ==
    resolved.called => resolved.result = NestedValue(resolved.data, resolved.path)

\* The record of an event.
ChunkOf(e) == handed[e.rec].chunk

Scalar(v) == v.t \in { "string", "number" }

\* The calls prepareAndGo made on the scope of an event after the hook had run.
OwnCalls(e) == SubSeq(e.scope.log, Len(decorateScope) + 1, Len(e.scope.log))

\* The tags copied into the scope of an event: what its setTag calls wrote.
CopiedTags(e) ==
    LET calls == { OwnCalls(e)[i] : i \in 1..Len(OwnCalls(e)) }
        tagCalls == { c \in calls : c.op = "setTag" }
    IN  [key \in { c.key : c \in tagCalls } |->
            (CHOOSE c \in tagCalls : c.key = key).value]

\* The breadcrumbs of a record, in source order.
BreadcrumbItems(chunk) ==
    LET b == Prop(chunk, "breadcrumbs")
    IN  IF IsMapping(b) /\ b.n \in DOMAIN KeyOrder
        THEN [i \in 1..Len(KeyOrder[b.n]) |-> Heap[b.n][KeyOrder[b.n][i]]]
        ELSE << >>

KindRank(op) ==
    CASE op = "setLevel" -> 1
      [] op = "setTag" -> 2
      [] op = "setExtra" -> 3
      [] op = "addBreadcrumb" -> 4
      [] OTHER -> 0

RecordTagKeys(chunk) ==
    (IF IsMapping(Prop(chunk, "tags")) THEN DOMAIN Heap[Prop(chunk, "tags").n] ELSE {})
       \cup { "uuid", "responseTime", "hostname" }

HookTagKeys == { decorateScope[i].key : i \in { j \in 1..Len(decorateScope) :
                                                  decorateScope[j].op = "setTag" } }

\* C15: the scope of the capture call of a record holds nothing of another
\* record: every tag is one of the record's own (or the hook's), every extra
\* entry is a field of the record, the breadcrumbs are the record's, and the
\* level was set once after the hook.
C15_ScopePerRecord ==
    \A p \in 1..Len(events) :
        IsCapture(events[p]) =>
            LET e == events[p]
            IN  /\ DOMAIN e.scope.tags \subseteq RecordTagKeys(ChunkOf(e)) \cup HookTagKeys
                /\ DOMAIN e.scope.extra \subseteq DOMAIN Heap[ChunkOf(e).n]
                /\ e.scope.breadcrumbs = BreadcrumbItems(ChunkOf(e))
                /\ Cardinality({ i \in 1..Len(OwnCalls(e)) : OwnCalls(e)[i].op = "setLevel" }) = 1
                /\ Len(e.scope.log) = Len(decorateScope) + Len(OwnCalls(e))

\* A record with the tag env, an extra entry and breadcrumbs went out before a
\* record with the tag region: the scope of the second has region alone.
C15_Witness ==
    \E a, b \in 1..Len(events) :
        /\ a < b
        /\ IsCapture(events[a])
        /\ IsCapture(events[b])
        /\ decorateScope = << >>
        /\ "env" \in DOMAIN events[a].scope.tags
        /\ "extra" \in DOMAIN events[a].scope.extra
        /\ events[a].scope.breadcrumbs # << >>
        /\ DOMAIN events[b].scope.tags = { "region", "responseTime" }
        /\ events[b].scope.breadcrumbs = << >>

\* The tags the record is said to give: its tags mapping, and uuid, responseTime
\* and hostname for each of reqId, responseTime and hostname that it has.
ClaimedTags(chunk) ==
    LET own == IF IsMapping(Prop(chunk, "tags")) THEN Heap[Prop(chunk, "tags").n]
               ELSE EmptyMap
        has(field) == field \in DOMAIN Heap[chunk.n]
        uuid == IF has("reqId") THEN "uuid" :> Prop(chunk, "reqId") ELSE EmptyMap
        time == IF has("responseTime") THEN "responseTime" :> Prop(chunk, "responseTime")
                ELSE EmptyMap
        host == IF has("hostname") THEN "hostname" :> Prop(chunk, "hostname") ELSE EmptyMap
    IN  uuid @@ time @@ host @@ own

\* C18: the tags copied into the scope of a capture call are the record's tags
\* augmented with uuid, responseTime and hostname for each of the three fields
\* that the record has, whatever the field holds.
C18_TagsAugmented ==
    \A p \in 1..Len(events) :
        IsCapture(events[p]) => CopiedTags(events[p]) = ClaimedTags(ChunkOf(events[p]))

\* C19: prepareAndGo does not throw, and a tags, extra or breadcrumbs field that
\* holds a scalar is skipped: nothing of it is written to the scope.
C19_ExtractionNeverRaises ==
    /\ ~threw
    /\ \A p \in 1..Len(events) :
          IsCapture(events[p]) =>
              LET e == events[p]
                  chunk == ChunkOf(e)
              IN  /\ Scalar(Prop(chunk, "tags")) => CopiedTags(e) = EmptyMap
                  /\ Scalar(Prop(chunk, "breadcrumbs")) => e.scope.breadcrumbs = << >>
                  /\ \A i \in 1..Len(extraAttributeKeys) :
                        Scalar(Prop(chunk, extraAttributeKeys[i]))
                           => extraAttributeKeys[i] \notin DOMAIN e.scope.extra

\* C20: the extra entries of the scope of a capture call are the record's values
\* under those of the configured keys that the record has, and nothing else.
C20_ExtraEntries ==
    \A p \in 1..Len(events) :
        IsCapture(events[p]) =>
            LET chunk == ChunkOf(events[p])
                keys == { extraAttributeKeys[i] : i \in 1..Len(extraAttributeKeys) }
            IN  events[p].scope.extra =
                   [k \in keys \cap DOMAIN Heap[chunk.n] |-> Heap[chunk.n][k]]

\* Of the configured keys extra, other and absent the record has the first two:
\* the scope of its call has exactly those two entries.
C20_Witness ==
    \E p \in 1..Len(events) :
        /\ IsCapture(events[p])
        /\ extraAttributeKeys = << "extra", "other", "absent" >>
        /\ DOMAIN events[p].scope.extra = { "extra", "other" }
        /\ events[p].scope.extra["other"] = Str("x")
        /\ events[p].scope.extra["extra"] = Obj(15)

\* The severity that the transport was configured to start at.
ConfiguredThreshold ==
    IF Includes(DeclaredOrder, given.level) THEN given.level.s ELSE "debug"

\* C16: SeverityIota ranks exactly the seven severities, in the declared order and
\* without two of them sharing a rank; shouldLog holds of a severity exactly when
\* its rank is at least that of the configured threshold, so of all seven when no
\* level was configured; and a record whose deferred step has run has a capture
\* call exactly when its severity ranks at least as high as the threshold.
C16_RankOrderAndShouldLog ==
    /\ DOMAIN SeverityIota = Range(DeclaredOrder)
    /\ \A a, b \in Range(DeclaredOrder) :
          (Rank(a) < Rank(b)) <=> (SeverityIota[a] < SeverityIota[b])
    /\ constructed = "ok" =>
          /\ \A sev \in Range(DeclaredOrder) :
                shouldLog(sev) <=> (Rank(sev) >= Rank(ConfiguredThreshold))
          /\ given.level = Undefined => \A sev \in Range(DeclaredOrder) : shouldLog(sev)
          /\ \A k \in 1..Len(handed) :
                (Dispatched(k) /\ SeverityOf(k) \in Range(DeclaredOrder)) =>
                    ((CallsOf(k) # {}) <=> (Rank(SeverityOf(k)) >= Rank(ConfiguredThreshold)))

\* With the threshold fatal an info record was acknowledged without a call and a
\* fatal record has had its call.
C16_Witness ==
    /\ given.level = Str("fatal")
    /\ minimumLogLevel = SeverityIota["fatal"]
    /\ \E i, j \in 1..Len(handed) :
          /\ SeverityOf(i) = "info"
          /\ AcksOf(i) # {}
          /\ CallsOf(i) = {}
          /\ SeverityOf(j) = "fatal"
          /\ CallsOf(j) # {}

\* The lines of a whole text: the stretches that a newline ends, and at the end of
\* the input the stretch after the last newline unless it is empty.
LinesOfWhole(text, atEnd) ==
    LET list == splitText(text)
        terminated == [i \in 1..(Len(list) - 1) |-> TextOfPieces(list[i])]
        fragment == TextOfPieces(list[Len(list)])
    IN  IF atEnd /\ fragment # "" THEN Append(terminated, fragment) ELSE terminated

\* C21: however the text was cut into chunks, the lines framed so far are the
\* lines of the whole text written so far (with the unterminated rest as a line
\* once the stream has ended, unless it is empty), and the records handed on are
\* the documents of the well-formed ones among them, one each, in order.
C21_FramingIgnoresChunking ==
    LET lines == LinesOfWhole(Flatten(written), ended)
        wellFormed == Ascending({ i \in 1..Len(lines) : lines[i] \in DOMAIN Documents })
    IN  written # << >> =>
           /\ input = lines
           /\ Len(handed) = Len(wellFormed)
           /\ \A i \in 1..Len(handed) :
                 /\ handed[i].line = wellFormed[i]
                 /\ handed[i].chunk = Documents[lines[wellFormed[i]]]

\* A text of two lines was written in three chunks, the first ending in the
\* middle of a line and the last leaving the second line without a newline; after
\* the end of the input both lines have been decoded.
C21_Witness ==
    /\ written = << << InfoHead >>, << InfoTail, NL, InfoHead >>, << InfoTail >> >>
    /\ ended
    /\ Len(handed) = 2
    /\ handed[2].chunk = Obj(1)
    /\ handed[2].line = 2

\* C22: with capture calls and a hook that do not raise, the callback of every
\* record given to prepareAndGo is invoked once and not before the deferred step
\* of the record runs: a record that is not yet acknowledged has its callback
\* queued, no record is acknowledged twice or while its deferred step is still
\* queued, and when nothing is left to run every record has its one
\* acknowledgement and the transformer waits for none.
C22_EveryRecordAcknowledged ==
    /\ \A k \in 1..taken :
          /\ Cardinality(AcksOf(k)) <= 1
          /\ AcksOf(k) = {} =>
                \E i \in 1..Len(immediates) :
                    immediates[i].rec = k /\ "cb" \in Range(immediates[i].ops)
          /\ AcksOf(k) # {} => \A i \in 1..Len(immediates) : immediates[i].rec # k
    /\ (taken = Len(handed) /\ immediates = << >>) =>
          /\ ~transforming
          /\ \A k \in 1..Len(handed) : Cardinality(AcksOf(k)) = 1

====
